---------------------------- MODULE Spec2Model ----------------------------
(***************************************************************************)
(* Questionnaire state machine of the skin-care consultation bot:          *)
(* SkinCareQuestionnaireBot (src/bot_from_llm.py), its progress store      *)
(* DatabaseManager (src/db/db_manager.py) and the answer validator         *)
(* QuestionManager (src/questions_manager.py).                             *)
(*                                                                         *)
(* Every handler is a coroutine.  It is modelled as a sequence of atomic   *)
(* segments, one per stretch of code between two awaits that touches the   *)
(* store or the in-memory sets.  Step(st, t) runs the next segment of      *)
(* task t on state st.  Spec runs each handler to its end in one action    *)
(* (events handled one after the other); SpecConc keeps the tasks in       *)
(* flight and interleaves their segments.                                  *)
(***************************************************************************)
EXTENDS Integers, Sequences, FiniteSets, TLC

(***************************************************************************)
(* Bounds                                                                  *)
(***************************************************************************)
\* keyboard messages the transport carries per chat
MaxMsg == 7
\* rows of the answers table per user
MaxAnswers == 4
\* events of one batch handled concurrently (SpecConc)
MaxTasks == 2
\* keyboard messages per chat and answer rows per user in SpecConc
MaxConcMsg == 3
MaxConcAnswers == 2
\* store calls of one handler, counted from its entry, that may be failed
\* (SpecFail)
MaxFail == 5
\* keyboard messages per chat and answer rows per user in SpecFail
MaxFailMsg == 4
MaxFailAnswers == 2

\* keyboard messages per chat and answer rows per user where two users send
\* events (SpecTwo)
MaxTwoMsg == 4
MaxTwoAnswers == 2

\* characters of an input and choices of a choice question (SpecValidate)
MaxLen == 3
MaxChoices == 2

\* entries of a catalog source (SpecLoad)
MaxEntries == 2

\* keyboard messages per chat and answer rows per user in SpecGate
MaxGateMsg == 3
MaxGateAnswers == 1

Users == {"u1", "u2"}

\* the users who send events where one user is enough
Senders == {"u1"}

\* SQL NULL of followup_question_index / completed_at
NULL == -1
\* no row in user_messages (get_user_last_message returns None)
NoMsg == 0

(***************************************************************************)
(* Text: a string is a sequence of one-character strings                   *)
(***************************************************************************)
UpperCase ==
    <<"A", "B", "C", "D", "E", "F", "G", "H", "I", "J", "K", "L", "M",
      "N", "O", "P", "Q", "R", "S", "T", "U", "V", "W", "X", "Y", "Z">>
LowerCase ==
    <<"a", "b", "c", "d", "e", "f", "g", "h", "i", "j", "k", "l", "m",
      "n", "o", "p", "q", "r", "s", "t", "u", "v", "w", "x", "y", "z">>
Digits == <<"0", "1", "2", "3", "4", "5", "6", "7", "8", "9">>

\* str.lower() on one character
LowerChar(c) ==
    IF \E k \in 1..Len(UpperCase) : UpperCase[k] = c
    THEN LowerCase[CHOOSE k \in 1..Len(UpperCase) : UpperCase[k] = c]
    ELSE c

\* str.lower()
Lower(s) == [k \in 1..Len(s) |-> LowerChar(s[k])]

RECURSIVE LStrip(_)
LStrip(s) == IF s # <<>> /\ Head(s) = " " THEN LStrip(Tail(s)) ELSE s

RECURSIVE RStrip(_)
RStrip(s) ==
    IF s # <<>> /\ s[Len(s)] = " " THEN RStrip(SubSeq(s, 1, Len(s) - 1)) ELSE s

\* str.strip()
Strip(s) == RStrip(LStrip(s))

IsDigit(c) == \E k \in 1..10 : Digits[k] = c
DigitVal(c) == (CHOOSE k \in 1..10 : Digits[k] = c) - 1

RECURSIVE DigitsVal(_)
DigitsVal(s) ==
    IF s = <<>> THEN 0
    ELSE DigitsVal(SubSeq(s, 1, Len(s) - 1)) * 10 + DigitVal(s[Len(s)])

\* the digits of an int literal, its single underscores dropped
RECURSIVE NoUnderscores(_)
NoUnderscores(s) ==
    IF s = <<>> THEN <<>>
    ELSE IF Head(s) = "_" THEN NoUnderscores(Tail(s))
    ELSE <<Head(s)>> \o NoUnderscores(Tail(s))

\* int(s): an optional sign and decimal digits, single underscores allowed
\* between digits; anything else is ValueError
ParseInt(s0) ==
    LET s == Strip(s0)
        signed == s # <<>> /\ Head(s) \in {"+", "-"}
        body == IF signed THEN Tail(s) ELSE s
        ok == /\ body # <<>>
              /\ IsDigit(body[1]) /\ IsDigit(body[Len(body)])
              /\ \A k \in 1..Len(body) : IsDigit(body[k]) \/ body[k] = "_"
              /\ \A k \in 1..(Len(body) - 1) :
                     ~(body[k] = "_" /\ body[k + 1] = "_")
    IN  [ok |-> ok,
         val |-> IF ~ok THEN 0
                 ELSE IF signed /\ Head(s) = "-"
                 THEN 0 - DigitsVal(NoUnderscores(body))
                 ELSE DigitsVal(NoUnderscores(body))]

RECURSIVE NatToStr(_)
NatToStr(n) ==
    IF n < 10 THEN <<Digits[n + 1]>>
    ELSE NatToStr(n \div 10) \o <<Digits[(n % 10) + 1]>>

\* str(n) for an int
IntToStr(n) == IF n < 0 THEN <<"-">> \o NatToStr(0 - n) ELSE NatToStr(n)

S_Ano == <<"A", "n", "o">>
S_Ne == <<"N", "e">>
\* the sentinel-skip value, stored as the string "None"
S_None == <<"N", "o", "n", "e">>
S_Photo == <<"F", "o", "t", "o">>

YesWords ==
    { <<"a", "n", "o">>,
      <<"y", "e", "s">>,
      <<"y">>,
      <<"1">>,
      <<"p", "r", "a", "v", "d", "a">>,
      <<"t", "r", "u", "e">>,
      <<"á", "n", "o">> }
NoWords ==
    { <<"n", "e">>,
      <<"n", "o">>,
      <<"n">>,
      <<"0">>,
      <<"n", "e", "p", "r", "a", "v", "d", "a">>,
      <<"f", "a", "l", "s", "e">>,
      <<"n", "i", "e">> }

(***************************************************************************)
(* Question catalog                                                        *)
(***************************************************************************)
Question(type, lo, hi, choices, fu) ==
    [question_type |-> type, scale_min |-> lo, scale_max |-> hi,
     choices |-> choices, has_followup |-> fu]

\* QuestionManager.questions: the catalog loaded from questions.json,
\* read-only after load
VARIABLE questions

\* the catalogs the model is run with
Catalogs ==
    { << Question("scale", 1, 3, <<>>, FALSE),
         Question("yes_no", 1, 10, <<>>, TRUE),
         Question("yes_no", 1, 10, <<>>, TRUE),
         Question("photo", 1, 10, <<>>, FALSE) >> }

\* short catalogs: a typed answer, then a yes/no question with a follow-up;
\* a photo, then a typed answer
ShortCatalogs ==
    { << Question("scale", 1, 3, <<>>, FALSE),
         Question("yes_no", 1, 10, <<>>, TRUE) >>,
      << Question("photo", 1, 10, <<>>, FALSE),
         Question("scale", 1, 3, <<>>, FALSE) >> }

\* catalogs of one question: a yes/no question with a follow-up; a photo; a
\* typed answer
TwoCatalogs ==
    { << Question("yes_no", 1, 10, <<>>, TRUE) >>,
      << Question("photo", 1, 10, <<>>, FALSE) >>,
      << Question("scale", 1, 3, <<>>, FALSE) >> }

get_total_questions == Len(questions)

\* questions are indexed from 0; None when out of range
HasQuestion(index) == 0 <= index /\ index < Len(questions)
get_question(index) == questions[index + 1]

\* followup_text is present exactly for the questions with has_followup
HasFollowupText(index) == HasQuestion(index) /\ get_question(index).has_followup

\* validate_answer that tries the choice texts before the numeral
validate_answer_TextFirst(question_index, answer0) ==
    IF ~HasQuestion(question_index) THEN [ok |-> FALSE, value |-> <<>>]
    ELSE
    LET question == get_question(question_index)
        answer == Strip(answer0)
        n == ParseInt(answer)
    IN  CASE question.question_type = "photo" -> [ok |-> FALSE, value |-> <<>>]
        [] question.question_type = "choice" /\ question.choices # <<>> ->
             IF \E k \in 1..Len(question.choices) :
                   Lower(answer) = Lower(question.choices[k])
             THEN [ok |-> TRUE,
                   value |-> question.choices[
                       CHOOSE k \in 1..Len(question.choices) :
                           /\ Lower(answer) = Lower(question.choices[k])
                           /\ \A j \in 1..(k - 1) :
                                  Lower(answer) # Lower(question.choices[j])]]
             ELSE IF n.ok /\ 1 <= n.val /\ n.val <= Len(question.choices)
             THEN [ok |-> TRUE, value |-> question.choices[n.val]]
             ELSE [ok |-> FALSE, value |-> <<>>]
        [] question.question_type = "scale" ->
             IF n.ok /\ question.scale_min <= n.val /\ n.val <= question.scale_max
             THEN [ok |-> TRUE, value |-> IntToStr(n.val)]
             ELSE [ok |-> FALSE, value |-> <<>>]
        [] question.question_type = "yes_no" ->
             IF Lower(answer) \in YesWords THEN [ok |-> TRUE, value |-> S_Ano]
             ELSE IF Lower(answer) \in NoWords THEN [ok |-> TRUE, value |-> S_Ne]
             ELSE [ok |-> FALSE, value |-> <<>>]
        [] OTHER ->
             IF Len(answer) = 0 THEN [ok |-> FALSE, value |-> <<>>]
             ELSE [ok |-> TRUE, value |-> answer]

\* validate_answer with a scale that excludes its bounds
validate_answer_OpenScale(question_index, answer0) ==
    IF ~HasQuestion(question_index) THEN [ok |-> FALSE, value |-> <<>>]
    ELSE
    LET question == get_question(question_index)
        answer == Strip(answer0)
        n == ParseInt(answer)
    IN  CASE question.question_type = "photo" -> [ok |-> FALSE, value |-> <<>>]
        [] question.question_type = "choice" /\ question.choices # <<>> ->
             IF n.ok /\ 1 <= n.val /\ n.val <= Len(question.choices)
             THEN [ok |-> TRUE, value |-> question.choices[n.val]]
             ELSE IF \E k \in 1..Len(question.choices) :
                        Lower(answer) = Lower(question.choices[k])
             THEN [ok |-> TRUE,
                   value |-> question.choices[
                       CHOOSE k \in 1..Len(question.choices) :
                           /\ Lower(answer) = Lower(question.choices[k])
                           /\ \A j \in 1..(k - 1) :
                                  Lower(answer) # Lower(question.choices[j])]]
             ELSE [ok |-> FALSE, value |-> <<>>]
        [] question.question_type = "scale" ->
             IF n.ok /\ question.scale_min < n.val /\ n.val < question.scale_max
             THEN [ok |-> TRUE, value |-> IntToStr(n.val)]
             ELSE [ok |-> FALSE, value |-> <<>>]
        [] question.question_type = "yes_no" ->
             IF Lower(answer) \in YesWords THEN [ok |-> TRUE, value |-> S_Ano]
             ELSE IF Lower(answer) \in NoWords THEN [ok |-> TRUE, value |-> S_Ne]
             ELSE [ok |-> FALSE, value |-> <<>>]
        [] OTHER ->
             IF Len(answer) = 0 THEN [ok |-> FALSE, value |-> <<>>]
             ELSE [ok |-> TRUE, value |-> answer]

validate_answer(question_index, answer0) ==
    IF ~HasQuestion(question_index) THEN [ok |-> FALSE, value |-> <<>>]
    ELSE
    LET question == get_question(question_index)
        answer == Strip(answer0)
        n == ParseInt(answer)
    IN  CASE question.question_type = "photo" -> [ok |-> FALSE, value |-> <<>>]
        [] question.question_type = "choice" /\ question.choices # <<>> ->
             IF n.ok /\ 1 <= n.val /\ n.val <= Len(question.choices)
             THEN [ok |-> TRUE, value |-> question.choices[n.val]]
             ELSE IF \E k \in 1..Len(question.choices) :
                        Lower(answer) = Lower(question.choices[k])
             THEN [ok |-> TRUE,
                   value |-> question.choices[
                       CHOOSE k \in 1..Len(question.choices) :
                           /\ Lower(answer) = Lower(question.choices[k])
                           /\ \A j \in 1..(k - 1) :
                                  Lower(answer) # Lower(question.choices[j])]]
             ELSE [ok |-> FALSE, value |-> <<>>]
        [] question.question_type = "scale" ->
             IF n.ok /\ question.scale_min <= n.val /\ n.val <= question.scale_max
             THEN [ok |-> TRUE, value |-> IntToStr(n.val)]
             ELSE [ok |-> FALSE, value |-> <<>>]
        [] question.question_type = "yes_no" ->
             IF Lower(answer) \in YesWords THEN [ok |-> TRUE, value |-> S_Ano]
             ELSE IF Lower(answer) \in NoWords THEN [ok |-> TRUE, value |-> S_Ne]
             ELSE [ok |-> FALSE, value |-> <<>>]
        [] OTHER ->
             IF Len(answer) = 0 THEN [ok |-> FALSE, value |-> <<>>]
             ELSE [ok |-> TRUE, value |-> answer]

(***************************************************************************)
(* State                                                                   *)
(***************************************************************************)
VARIABLES
    users,                \* table users: one row per user id
    answers,              \* table answers: per user, rows in insertion order
    photos,               \* table photos: per user, rows in insertion order
    user_messages,        \* table user_messages, type 'question': message id
    waiting_for_answer,   \* in-memory set of user ids
    waiting_for_photo,    \* in-memory set of user ids
    waiting_for_followup, \* in-memory set of user ids
    sent,                 \* per chat: the inline keyboards sent, by message id
    tasks,                \* handler coroutines in flight (SpecConc)
    base,                 \* state when the current batch of events began
    batch,                \* the events of the current batch, in arrival order
    lastEvent,            \* the event handled last and its outcome
    validated             \* the last call of validate_answer and its result

vars == <<questions, users, answers, photos, user_messages, waiting_for_answer,
          waiting_for_photo, waiting_for_followup, sent, tasks, base, batch,
          lastEvent, validated>>

\* a row of users as create_or_update_user inserts it; exists = FALSE stands
\* for the absent row
NoUser ==
    [exists |-> FALSE, current_question_index |-> 0,
     waiting_for_followup |-> FALSE, followup_question_index |-> NULL,
     questionnaire_completed |-> FALSE, completed_at |-> NULL]

\* the store, the in-memory sets and the transport as one value
St ==
    [users |-> users, answers |-> answers, photos |-> photos,
     user_messages |-> user_messages,
     waiting_for_answer |-> waiting_for_answer,
     waiting_for_photo |-> waiting_for_photo,
     waiting_for_followup |-> waiting_for_followup,
     sent |-> sent]

InitSt ==
    [users |-> [u \in Users |-> NoUser],
     answers |-> [u \in Users |-> <<>>],
     photos |-> [u \in Users |-> <<>>],
     user_messages |-> [u \in Users |-> NoMsg],
     waiting_for_answer |-> {},
     waiting_for_photo |-> {},
     waiting_for_followup |-> {},
     sent |-> [u \in Users |-> <<>>]]

(***************************************************************************)
(* DatabaseManager: every method is one committed transaction              *)
(***************************************************************************)
get_user(st, user_id) == st.users[user_id]

create_or_update_user(st, user_id) ==
    IF st.users[user_id].exists THEN st
    ELSE [st EXCEPT !.users[user_id] = [NoUser EXCEPT !.exists = TRUE]]

AnswerRow(question_index, answer_text, answer_type, file_id) ==
    [question_index |-> question_index, answer_text |-> answer_text,
     answer_type |-> answer_type, file_id |-> file_id,
     followup_text |-> <<>>]

\* save_answer, the INSERT INTO answers
save_answer_insert(st, user_id, question_index, answer_text, answer_type) ==
    [st EXCEPT !.answers[user_id] =
                  Append(@, AnswerRow(question_index, answer_text,
                                      answer_type, 0))]

\* save_answer, the UPDATE users ... WHERE waiting_for_followup = FALSE
save_answer_update(st, user_id, question_index) ==
    [st EXCEPT !.users[user_id].current_question_index =
                  IF ~st.users[user_id].waiting_for_followup
                  THEN question_index + 1 ELSE @]

save_answer(st, user_id, question_index, answer_text, answer_type) ==
    IF ~st.users[user_id].exists THEN st
    ELSE save_answer_update(
             save_answer_insert(st, user_id, question_index, answer_text,
                                answer_type),
             user_id, question_index)

\* the points at which a transaction raises: at its first, second or third
\* SQL statement, or (4, and any point past its last statement) at the
\* commit
Statements == 1..4

\* what the transaction of save_answer has written when statement stmt
\* raises
save_answer_partial(st, user_id, question_index, answer_text, answer_type, stmt) ==
    IF ~st.users[user_id].exists \/ stmt <= 1 THEN st
    ELSE IF stmt = 2
    THEN save_answer_insert(st, user_id, question_index, answer_text,
                            answer_type)
    ELSE save_answer(st, user_id, question_index, answer_text, answer_type)

\* a store in which the writes of a failed transaction stay (autocommit)
rollback_KeepsWrites(before, partial) == partial

\* conn.rollback() in the except clause of every method, and the close of
\* the connection without commit: the writes of the transaction are undone
rollback(before, partial) == before

save_photo(st, user_id, question_index, file_id) ==
    LET row == AnswerRow(question_index, S_Photo, "photo", file_id)
        u == st.users[user_id]
    IN  IF ~u.exists THEN st
        ELSE [st EXCEPT
                !.photos[user_id] =
                    Append(@, [question_index |-> question_index,
                               file_id |-> file_id]),
                !.answers[user_id] = Append(@, row),
                !.users[user_id].current_question_index = question_index + 1]

\* what the transaction of save_photo has written when statement stmt
\* raises: nothing at the INSERT INTO photos, the photos row at the INSERT
\* INTO answers, both rows at the UPDATE, all three writes at the commit
save_photo_partial(st, user_id, question_index, file_id, stmt) ==
    LET full == save_photo(st, user_id, question_index, file_id)
    IN  CASE stmt <= 1 -> st
          [] stmt = 2 -> [st EXCEPT !.photos = full.photos]
          [] stmt = 3 -> [st EXCEPT !.photos = full.photos,
                                    !.answers = full.answers]
          [] OTHER -> full

set_waiting_for_followup(st, user_id, question_index) ==
    IF ~st.users[user_id].exists THEN st
    ELSE [st EXCEPT
            !.users[user_id].waiting_for_followup = TRUE,
            !.users[user_id].followup_question_index = question_index]

\* the most recent answer row of the question, 0 when there is none
LastAnswerOf(rows, question_index) ==
    IF \E k \in 1..Len(rows) : rows[k].question_index = question_index
    THEN CHOOSE k \in 1..Len(rows) :
             /\ rows[k].question_index = question_index
             /\ \A j \in (k + 1)..Len(rows) :
                    rows[j].question_index # question_index
    ELSE 0

\* save_followup_answer with an UPDATE that leaves followup_question_index
save_followup_answer_KeepsIndex(st, user_id, question_index, followup_text) ==
    LET answer_id == LastAnswerOf(st.answers[user_id], question_index)
        st1 == IF answer_id = 0 THEN st
               ELSE [st EXCEPT
                       !.answers[user_id][answer_id].followup_text =
                           followup_text]
    IN  IF ~st.users[user_id].exists THEN st1
        ELSE [st1 EXCEPT !.users[user_id].waiting_for_followup = FALSE]

\* save_followup_answer with an UPDATE that overwrites the answer
save_followup_answer_OverAnswer(st, user_id, question_index, followup_text) ==
    LET answer_id == LastAnswerOf(st.answers[user_id], question_index)
        st1 == IF answer_id = 0 THEN st
               ELSE [st EXCEPT
                       !.answers[user_id][answer_id].answer_text =
                           followup_text]
    IN  IF ~st.users[user_id].exists THEN st1
        ELSE [st1 EXCEPT
                !.users[user_id].waiting_for_followup = FALSE,
                !.users[user_id].followup_question_index = NULL]

save_followup_answer(st, user_id, question_index, followup_text) ==
    LET answer_id == LastAnswerOf(st.answers[user_id], question_index)
        st1 == IF answer_id = 0 THEN st
               ELSE [st EXCEPT
                       !.answers[user_id][answer_id].followup_text =
                           followup_text]
    IN  IF ~st.users[user_id].exists THEN st1
        ELSE [st1 EXCEPT
                !.users[user_id].waiting_for_followup = FALSE,
                !.users[user_id].followup_question_index = NULL]

mark_questionnaire_completed(st, user_id) ==
    IF ~st.users[user_id].exists THEN st
    ELSE [st EXCEPT
            !.users[user_id].questionnaire_completed = TRUE,
            !.users[user_id].completed_at = 1,
            !.users[user_id].waiting_for_followup = FALSE,
            !.users[user_id].followup_question_index = NULL]

\* reset_user_progress with an UPDATE that leaves current_question_index
reset_user_progress_KeepsIndex(st, user_id) ==
    LET st1 == [st EXCEPT
                  !.answers[user_id] = <<>>,
                  !.photos[user_id] = <<>>,
                  !.user_messages[user_id] = NoMsg]
    IN  IF ~st.users[user_id].exists THEN st1
        ELSE [st1 EXCEPT
                !.users[user_id].waiting_for_followup = FALSE,
                !.users[user_id].followup_question_index = NULL,
                !.users[user_id].questionnaire_completed = FALSE,
                !.users[user_id].completed_at = NULL]

reset_user_progress(st, user_id) ==
    LET st1 == [st EXCEPT
                  !.answers[user_id] = <<>>,
                  !.photos[user_id] = <<>>,
                  !.user_messages[user_id] = NoMsg]
    IN  IF ~st.users[user_id].exists THEN st1
        ELSE [st1 EXCEPT
                !.users[user_id].current_question_index = 0,
                !.users[user_id].waiting_for_followup = FALSE,
                !.users[user_id].followup_question_index = NULL,
                !.users[user_id].questionnaire_completed = FALSE,
                !.users[user_id].completed_at = NULL]

save_user_message(st, user_id, message_id) ==
    IF ~st.users[user_id].exists THEN st
    ELSE [st EXCEPT !.user_messages[user_id] = message_id]

get_user_last_message(st, user_id) == st.user_messages[user_id]

clear_user_messages(st, user_id) ==
    [st EXCEPT !.user_messages[user_id] = NoMsg]

(***************************************************************************)
(* Transport: inline keyboards, events                                     *)
(***************************************************************************)
\* an inline keyboard: callback_data without the answer part
Keyboard(k, question_index) == [k |-> k, qi |-> question_index]

\* bot.send_message with reply_markup: the chat's next message id
NextMessageId(st, user_id) == Len(st.sent[user_id]) + 1
SendKeyboard(st, user_id, kb) == [st EXCEPT !.sent[user_id] = Append(@, kb)]

Event(type, mid, k, qi, ans, body, route) ==
    [type |-> type, mid |-> mid, k |-> k, qi |-> qi, ans |-> ans,
     body |-> body, route |-> route,
     gate_raises |-> FALSE, fail |-> 0, stmt |-> 0]

\* the event, handled while the classifier call raises (API error, timeout)
WithGateFailure(ev) == [ev EXCEPT !.gate_raises = TRUE]

\* the event, handled while the n-th store call of its handler raises at
\* statement stmt of its transaction
WithStoreFailure(ev, n, stmt) == [ev EXCEPT !.fail = n, !.stmt = stmt]

\* the button presses message mid of the chat can produce
PressesOf(st, user_id, mid) ==
    LET kb == st.sent[user_id][mid]
    IN  { Event("callback", mid, kb.k, kb.qi, ans, <<>>, FALSE) :
             ans \in IF kb.k = "yn" THEN {"yes", "no"} ELSE {"-"} }

\* a coroutine of a handler: its event, where it stands, its locals, the
\* store calls it has made, the method that raised, if one did, and whether
\* it has sent the confirmation of an answer
Task(user_id, ev, pc) ==
    [user |-> user_id, ev |-> ev, pc |-> pc, qi |-> 0, mid |-> NoMsg,
     res |-> "-", calls |-> 0, raised |-> "-", confirmed |-> FALSE]

Go(st, t) == [st |-> st, t |-> t]
Done(st, t, res) == [st |-> st, t |-> [t EXCEPT !.pc = "done", !.res = res]]

(***************************************************************************)
(* Exceptions: a store call the environment fails raises, its transaction  *)
(* is rolled back, and the exception leaves the coroutine through the      *)
(* except clause of the handler; nothing the handler did before is undone. *)
(***************************************************************************)
Raised(t) == t.raised # "-"

\* a call of the DatabaseManager method op. after is the state the method
\* commits, partial the state its transaction has written if it raises now.
Call(r, op, after, partial) ==
    IF Raised(r.t) THEN r
    ELSE IF r.t.ev.fail = r.t.calls + 1
    THEN [st |-> rollback(r.st, partial),
          t |-> [r.t EXCEPT !.calls = @ + 1, !.raised = op]]
    ELSE [st |-> after, t |-> [r.t EXCEPT !.calls = @ + 1]]

\* a method that only reads
Read(r, op) == Call(r, op, r.st, r.st)

\* a method of one SQL statement and the commit
Write(r, op, after) ==
    Call(r, op, after, IF r.t.ev.stmt >= 2 THEN after ELSE r.st)

\* a statement on the in-memory sets or a send: skipped once an exception
\* is in flight
Mem(r, after) == IF Raised(r.t) THEN r ELSE [r EXCEPT !.st = after]

\* the end of the handler, through its except clause if a call raised
Finish(r, res) == Done(r.st, r.t, IF Raised(r.t) THEN "error" ELSE res)

\* bot.send_message of the text that tells the user the answer is saved
\* (or skipped): not reached once an exception is in flight
SendConfirmation(t) ==
    IF Raised(t) THEN t ELSE [t EXCEPT !.confirmed = TRUE]

(***************************************************************************)
(* SkinCareQuestionnaireBot                                                *)
(***************************************************************************)
\* _clear_user_states that empties the waiting sets
_clear_user_states_AllUsers(r) ==
    LET r1 == Mem(r, [r.st EXCEPT
                         !.waiting_for_answer = {},
                         !.waiting_for_photo = {},
                         !.waiting_for_followup = {}])
    IN  Write(r1, "clear_user_messages",
              clear_user_messages(r1.st, r1.t.user))

_clear_user_states(r) ==
    LET r1 == Mem(r, [r.st EXCEPT
                         !.waiting_for_answer = @ \ {r.t.user},
                         !.waiting_for_photo = @ \ {r.t.user},
                         !.waiting_for_followup = @ \ {r.t.user}])
    IN  Write(r1, "clear_user_messages",
              clear_user_messages(r1.st, r1.t.user))

\* _complete_questionnaire without mark_questionnaire_completed
_complete_questionnaire_NoMark(r) == _clear_user_states(r)

_complete_questionnaire(r) ==
    _clear_user_states(
        Write(r, "mark_questionnaire_completed",
              mark_questionnaire_completed(r.st, r.t.user)))

\* _send_question up to the await of send_message: t.qi is question_index
_send_question(st, t) ==
    IF t.qi >= get_total_questions
    THEN Finish(_complete_questionnaire(Go(st, t)), t.res)
    ELSE LET type == get_question(t.qi).question_type
             kb == CASE type = "yes_no" -> Keyboard("yn", t.qi)
                    [] type = "photo" -> Keyboard("skip_photo", t.qi)
                    [] OTHER -> Keyboard("skip_text", t.qi)
         IN  Go(SendKeyboard(st, t.user, kb),
                [t EXCEPT !.pc = "sq_store",
                          !.mid = NextMessageId(st, t.user)])

\* _send_question after the await: store the message id, set the waiting set
_send_question_store(st, t) ==
    LET type == get_question(t.qi).question_type
        r1 == Write(Go(st, t), "save_user_message",
                    save_user_message(st, t.user, t.mid))
        r2 == Mem(r1,
                  CASE type = "photo" ->
                         [r1.st EXCEPT !.waiting_for_photo = @ \cup {t.user}]
                    [] type = "yes_no" -> r1.st
                    [] OTHER ->
                         [r1.st EXCEPT !.waiting_for_answer = @ \cup {t.user}])
    IN  Finish(r2, t.res)

\* the call of _send_question(question_index), unless an exception is in
\* flight
ToSendQuestion(st, t, question_index, res) ==
    IF Raised(t) THEN Done(st, t, "error")
    ELSE Go(st, [t EXCEPT !.pc = "sq", !.qi = question_index, !.res = res])

\* the call of save_answer by the handler
CallSaveAnswer(r, question_index, answer_text, answer_type) ==
    Call(r, "save_answer",
         save_answer(r.st, r.t.user, question_index, answer_text,
                     answer_type),
         save_answer_partial(r.st, r.t.user, question_index, answer_text,
                             answer_type, r.t.ev.stmt))

\* _handle_skip_photo that records the skip as a text answer
_handle_skip_photo_AsText(st, t, question_index) ==
    LET r1 == CallSaveAnswer(Go(st, t), question_index, S_None, "text")
        r2 == Mem(r1, [r1.st EXCEPT !.waiting_for_photo = @ \ {t.user}])
    IN  ToSendQuestion(r2.st, SendConfirmation(r2.t), question_index + 1,
                       "skipped")

_handle_skip_photo(st, t, question_index) ==
    LET r1 == CallSaveAnswer(Go(st, t), question_index, S_None, "photo")
        r2 == Mem(r1, [r1.st EXCEPT !.waiting_for_photo = @ \ {t.user}])
    IN  ToSendQuestion(r2.st, SendConfirmation(r2.t), question_index + 1,
                       "skipped")

_handle_skip_followup(st, t, question_index) ==
    LET r1 == Call(Go(st, t), "save_followup_answer",
                   save_followup_answer(st, t.user, question_index, S_None),
                   st)
        r2 == Mem(r1, [r1.st EXCEPT !.waiting_for_followup = @ \ {t.user}])
    IN  ToSendQuestion(r2.st, SendConfirmation(r2.t), question_index + 1,
                       "skipped")

\* _handle_skip_text that asks the follow-up of a question that has one
_handle_skip_text_AsksFollowup(st, t, question_index) ==
    LET r1 == CallSaveAnswer(Go(st, t), question_index, S_None, "text")
        r2 == Mem(r1, [r1.st EXCEPT !.waiting_for_answer = @ \ {t.user}])
    IN  IF get_question(question_index).has_followup /\ ~Raised(r2.t)
        THEN LET st3 == set_waiting_for_followup(r2.st, t.user,
                                                 question_index)
                 st4 == [st3 EXCEPT !.waiting_for_followup = @ \cup {t.user}]
                 kb == Keyboard("skip_followup", question_index)
             IN  Go(SendKeyboard(st4, t.user, kb),
                    [r2.t EXCEPT !.pc = "fu_store",
                                 !.mid = NextMessageId(st4, t.user),
                                 !.res = "followup"])
        ELSE ToSendQuestion(r2.st, SendConfirmation(r2.t), question_index + 1,
                       "skipped")

_handle_skip_text(st, t, question_index) ==
    LET r1 == CallSaveAnswer(Go(st, t), question_index, S_None, "text")
        r2 == Mem(r1, [r1.st EXCEPT !.waiting_for_answer = @ \ {t.user}])
    IN  ToSendQuestion(r2.st, SendConfirmation(r2.t), question_index + 1,
                       "skipped")

\* _process_keyboard_answer that opens the follow-up wait for any answer
_process_keyboard_answer_AlwaysFollowup(st, t, question_index, answer) ==
    LET question == get_question(question_index)
        r1 == CallSaveAnswer(Go(st, t), question_index, answer, "text")
    IN  IF question.question_type = "yes_no" /\ question.has_followup
        THEN LET r2 == Write(r1, "set_waiting_for_followup",
                             set_waiting_for_followup(r1.st, t.user,
                                                      question_index))
                 r3 == Mem(r2, [r2.st EXCEPT
                                   !.waiting_for_followup = @ \cup {t.user}])
                 kb == Keyboard("skip_followup", question_index)
             IN  IF Raised(r3.t) THEN Finish(r3, "error")
                 ELSE Go(SendKeyboard(r3.st, t.user, kb),
                         [r3.t EXCEPT !.pc = "fu_store",
                                      !.mid = NextMessageId(r3.st, t.user),
                                      !.res = "followup"])
        ELSE ToSendQuestion(r1.st, r1.t, question_index + 1, "saved")

_process_keyboard_answer(st, t, question_index, answer) ==
    LET question == get_question(question_index)
        r1 == CallSaveAnswer(Go(st, t), question_index, answer, "text")
    IN  IF question.question_type = "yes_no" /\ answer = S_Ano
           /\ question.has_followup
        THEN LET r2 == Write(r1, "set_waiting_for_followup",
                             set_waiting_for_followup(r1.st, t.user,
                                                      question_index))
                 r3 == Mem(r2, [r2.st EXCEPT
                                   !.waiting_for_followup = @ \cup {t.user}])
                 kb == Keyboard("skip_followup", question_index)
             IN  IF Raised(r3.t) THEN Finish(r3, "error")
                 ELSE Go(SendKeyboard(r3.st, t.user, kb),
                         [r3.t EXCEPT !.pc = "fu_store",
                                      !.mid = NextMessageId(r3.st, t.user),
                                      !.res = "followup"])
        ELSE ToSendQuestion(r1.st, r1.t, question_index + 1, "saved")

\* _process_keyboard_answer after the await of the follow-up prompt
_process_keyboard_answer_store(st, t) ==
    Finish(Write(Go(st, t), "save_user_message",
                 save_user_message(st, t.user, t.mid)),
           t.res)

\* _process_answer that leaves waiting_for_answer when the answer is invalid
_process_answer_DropsWait(st, t, question_index, answer) ==
    LET v == validate_answer(question_index, answer)
    IN  IF ~v.ok
        THEN Done([st EXCEPT !.waiting_for_answer = @ \ {t.user}], t,
                  "invalid")
        ELSE LET r1 == CallSaveAnswer(Go(st, t), question_index, v.value,
                                      "text")
                 r2 == Mem(r1, [r1.st EXCEPT
                                   !.waiting_for_answer = @ \ {t.user}])
             IN  ToSendQuestion(r2.st, SendConfirmation(r2.t),
                                question_index + 1, "saved")

_process_answer(st, t, question_index, answer) ==
    LET v == validate_answer(question_index, answer)
    IN  IF ~v.ok THEN Done(st, t, "invalid")
        ELSE LET r1 == CallSaveAnswer(Go(st, t), question_index, v.value,
                                      "text")
                 r2 == Mem(r1, [r1.st EXCEPT
                                   !.waiting_for_answer = @ \ {t.user}])
             IN  ToSendQuestion(r2.st, SendConfirmation(r2.t),
                                question_index + 1, "saved")

\* handle_callback_query without the check of the message id
handle_callback_query_NoTokenCheck(st, t) ==
    Go(st, [t EXCEPT !.pc = "cb_dispatch"])

\* handle_callback_query, the token validation
handle_callback_query(st, t) ==
    IF t.ev.k \in {"yn", "skip_photo", "skip_followup", "skip_text"}
    THEN LET r == Read(Go(st, t), "get_user_last_message")
             current_message_id == get_user_last_message(st, t.user)
         IN  IF Raised(r.t) THEN Finish(r, "error")
             ELSE IF current_message_id # NoMsg
                     /\ t.ev.mid # current_message_id
             THEN Done(r.st, r.t, "stale")
             ELSE Go(r.st, [r.t EXCEPT !.pc = "cb_dispatch"])
    ELSE Go(st, [t EXCEPT !.pc = "cb_dispatch"])

\* handle_callback_query after answer_callback_query: the branch of the data
handle_callback_query_dispatch(st, t) ==
    CASE t.ev.k = "start" -> ToSendQuestion(st, t, 0, "prompt")
      [] t.ev.k = "continue" ->
           LET r == Read(Go(st, t), "get_user")
           IN  ToSendQuestion(r.st, r.t,
                   get_user(st, t.user).current_question_index, "prompt")
      [] t.ev.k = "skip_photo" -> _handle_skip_photo(st, t, t.ev.qi)
      [] t.ev.k = "skip_followup" -> _handle_skip_followup(st, t, t.ev.qi)
      [] t.ev.k = "skip_text" -> _handle_skip_text(st, t, t.ev.qi)
      [] OTHER ->
           _process_keyboard_answer(st, SendConfirmation(t), t.ev.qi,
               IF t.ev.ans = "yes" THEN S_Ano ELSE S_Ne)

handle_start(st, t) ==
    LET r1 == Write(Go(st, t), "create_or_update_user",
                    create_or_update_user(st, t.user))
        r2 == Read(r1, "get_user")
        user_data == get_user(r2.st, t.user)
        current_index == user_data.current_question_index
    IN  IF Raised(r2.t) THEN Finish(r2, "error")
        ELSE IF user_data.questionnaire_completed
        THEN Done(r2.st, r2.t, "completed")
        ELSE IF current_index = 0
        THEN Done(SendKeyboard(r2.st, t.user, Keyboard("start", 0)), r2.t,
                  "welcome")
        ELSE IF user_data.waiting_for_followup
        THEN IF ~HasQuestion(user_data.followup_question_index)
             THEN Done(r2.st, r2.t, "error")
             ELSE LET r3 == Read(r2, "get_user_answers")
                  IN  IF Raised(r3.t) THEN Finish(r3, "error")
                      ELSE Done(SendKeyboard(r3.st, t.user,
                                    Keyboard("skip_followup",
                                        user_data.followup_question_index)),
                                r3.t, "followup_prompt")
        ELSE Done(SendKeyboard(r2.st, t.user, Keyboard("continue", 0)),
                  r2.t, "continue")

handle_restart(st, t) ==
    Finish(_clear_user_states(
               Call(Go(st, t), "reset_user_progress",
                    reset_user_progress(st, t.user), st)),
           "reset")

\* handle_photo without the check of questionnaire_completed
handle_photo_NoCompletedCheck(st, t) ==
    LET r0 == Read(Go(st, t), "get_user")
        user_data == get_user(st, t.user)
        current_question_index == user_data.current_question_index
    IN  IF Raised(r0.t) THEN Finish(r0, "error")
        ELSE IF ~user_data.exists THEN Done(r0.st, r0.t, "unknown")
        ELSE IF ~HasQuestion(current_question_index)
                \/ get_question(current_question_index).question_type # "photo"
        THEN Done(r0.st, r0.t, "unexpected")
        ELSE LET r1 == Call(r0, "save_photo",
                            save_photo(st, t.user, current_question_index, 1),
                            save_photo_partial(st, t.user,
                                current_question_index, 1, t.ev.stmt))
                 r2 == Mem(r1, [r1.st EXCEPT
                                   !.waiting_for_photo = @ \ {t.user}])
             IN  ToSendQuestion(r2.st, SendConfirmation(r2.t),
                                current_question_index + 1, "saved")

handle_photo(st, t) ==
    LET r0 == Read(Go(st, t), "get_user")
        user_data == get_user(st, t.user)
        current_question_index == user_data.current_question_index
    IN  IF Raised(r0.t) THEN Finish(r0, "error")
        ELSE IF ~user_data.exists THEN Done(r0.st, r0.t, "unknown")
        ELSE IF user_data.questionnaire_completed
        THEN Done(r0.st, r0.t, "completed")
        ELSE IF ~HasQuestion(current_question_index)
                \/ get_question(current_question_index).question_type # "photo"
        THEN Done(r0.st, r0.t, "unexpected")
        ELSE LET r1 == Call(r0, "save_photo",
                            save_photo(st, t.user, current_question_index, 1),
                            save_photo_partial(st, t.user,
                                current_question_index, 1, t.ev.stmt))
                 r2 == Mem(r1, [r1.st EXCEPT
                                   !.waiting_for_photo = @ \ {t.user}])
             IN  ToSendQuestion(r2.st, SendConfirmation(r2.t),
                                current_question_index + 1, "saved")

\* a classifier that never routes a message
switch_to_assistant_needed_Never(t) == FALSE

\* switch_to_assistant_needed: the classifier's answer is an input
switch_to_assistant_needed(t) == t.ev.route

\* switch_to_assistant_needed raises: the API call or the parsing of its
\* response fails; the exception reaches the except clause of the handler
GateRaises(st, t) ==
    Done(st, [t EXCEPT !.raised = "switch_to_assistant_needed"], "error")

handle_message(st, t) ==
    LET message_text == Strip(t.ev.body)
        r1 == Write(Go(st, t), "create_or_update_user",
                    create_or_update_user(st, t.user))
        r2 == Read(r1, "get_user")
        st1 == r2.st
        t1 == r2.t
        user_data == get_user(st1, t.user)
        current_question_index == user_data.current_question_index
        questionnaire_not_started ==
            /\ current_question_index = 0
            /\ t.user \notin st1.waiting_for_answer
            /\ t.user \notin st1.waiting_for_photo
            /\ ~user_data.waiting_for_followup
        followup_question_index == user_data.followup_question_index
    IN  IF Raised(t1) THEN Finish(r2, "error")
        ELSE IF user_data.questionnaire_completed
        THEN Done(st1, t1, "completed")
        ELSE IF questionnaire_not_started THEN Done(st1, t1, "not_started")
        ELSE IF user_data.waiting_for_followup
                /\ ~HasFollowupText(current_question_index - 1)
        THEN Done(st1, t1, "error")
        ELSE IF user_data.waiting_for_followup /\ t.ev.gate_raises
        THEN GateRaises(st1, t1)
        ELSE IF user_data.waiting_for_followup /\ switch_to_assistant_needed(t)
        THEN Done(st1, t1, "routed")
        ELSE IF user_data.waiting_for_followup
                /\ followup_question_index # NULL
        THEN LET r3 == Call(r2, "save_followup_answer",
                            save_followup_answer(st1, t.user,
                                followup_question_index, message_text),
                            st1)
                 r4 == Read(r3, "get_user")
                 r5 == Mem(r4, [r4.st EXCEPT
                                   !.waiting_for_followup = @ \ {t.user}])
             IN  ToSendQuestion(r5.st, SendConfirmation(r5.t),
                                followup_question_index + 1,
                                "followup_saved")
        ELSE IF t.user \in st1.waiting_for_answer
        THEN IF ~HasQuestion(current_question_index)
             THEN Done(st1, t1, "error")
             ELSE IF t.ev.gate_raises THEN GateRaises(st1, t1)
             ELSE IF switch_to_assistant_needed(t)
             THEN Done(st1, t1, "routed")
             ELSE _process_answer(st1, t1, current_question_index,
                                  message_text)
        ELSE IF t.user \in st1.waiting_for_photo
        THEN Done(st1, t1, "assistant")
        ELSE IF current_question_index = 0 THEN Done(st1, t1, "assistant")
        ELSE Done(SendKeyboard(st1, t.user, Keyboard("continue", 0)),
                  t1, "assistant")

\* the entry segment of the handler the event is dispatched to
Handler(ev) ==
    CASE ev.type = "callback" -> "cb"
      [] ev.type = "start" -> "start"
      [] ev.type = "restart" -> "restart"
      [] ev.type = "photo" -> "photo"
      [] OTHER -> "msg"

\* the next segment of coroutine t, run to its next await
Step(st, t) ==
    CASE t.pc = "cb" -> handle_callback_query(st, t)
      [] t.pc = "cb_dispatch" -> handle_callback_query_dispatch(st, t)
      [] t.pc = "fu_store" -> _process_keyboard_answer_store(st, t)
      [] t.pc = "sq" -> _send_question(st, t)
      [] t.pc = "sq_store" -> _send_question_store(st, t)
      [] t.pc = "start" -> handle_start(st, t)
      [] t.pc = "restart" -> handle_restart(st, t)
      [] t.pc = "photo" -> handle_photo(st, t)
      [] OTHER -> handle_message(st, t)

\* a handler run from its entry to its end with no other coroutine between
RECURSIVE RunTask(_)
RunTask(r) == IF r.t.pc = "done" THEN r ELSE RunTask(Step(r.st, r.t))

Run(st, user_id, ev) == RunTask(Go(st, Task(user_id, ev, Handler(ev))))

(***************************************************************************)
(* Events the transport delivers                                           *)
(***************************************************************************)
\* message bodies users type
TextInputs == { S_Ano, <<"2">>, <<"x">> }

NoEvent ==
    [user |-> "-", type |-> "-", k |-> "-", qi |-> 0, res |-> "-",
     raised |-> "-", confirmed |-> FALSE]

Outcome(t) ==
    [user |-> t.user, type |-> t.ev.type, k |-> t.ev.k, qi |-> t.ev.qi,
     res |-> t.res, raised |-> t.raised, confirmed |-> t.confirmed]

\* the chat still takes an event: the message and answer counters are capped
Accepts(user_id) ==
    /\ Len(sent[user_id]) < MaxMsg
    /\ Len(answers[user_id]) < MaxAnswers

CallbackEvents(user_id) ==
    UNION { PressesOf(St, user_id, mid) : mid \in 1..Len(sent[user_id]) }
StartEvent == Event("start", NoMsg, "-", 0, "-", <<>>, FALSE)
RestartEvent == Event("restart", NoMsg, "-", 0, "-", <<>>, FALSE)
PhotoEvent == Event("photo", NoMsg, "-", 0, "-", <<>>, FALSE)
TextEvents ==
    { Event("text", NoMsg, "-", 0, "-", body, route) :
         body \in TextInputs, route \in BOOLEAN }

SetSt(st) ==
    /\ users' = st.users
    /\ answers' = st.answers
    /\ photos' = st.photos
    /\ user_messages' = st.user_messages
    /\ waiting_for_answer' = st.waiting_for_answer
    /\ waiting_for_photo' = st.waiting_for_photo
    /\ waiting_for_followup' = st.waiting_for_followup
    /\ sent' = st.sent

\* validate_answer has not been called
NoCall == [question_index |-> NULL, answer |-> <<>>, ok |-> FALSE, value |-> <<>>]

\* the state after construction: empty tables, empty sets, nothing sent
Constructed ==
    /\ users = InitSt.users
    /\ answers = InitSt.answers
    /\ photos = InitSt.photos
    /\ user_messages = InitSt.user_messages
    /\ waiting_for_answer = {}
    /\ waiting_for_photo = {}
    /\ waiting_for_followup = {}
    /\ sent = InitSt.sent
    /\ tasks = <<>>
    /\ base = InitSt
    /\ batch = <<>>
    /\ lastEvent = NoEvent
    /\ validated = NoCall

Init == questions \in Catalogs /\ Constructed

(***************************************************************************)
(* Spec: one event at a time, each handler run to its end                  *)
(***************************************************************************)
\* the handler has returned: its writes are the state, its outcome the last
\* event
Returned(r) == SetSt(r.st) /\ lastEvent' = Outcome(r.t)

Handle(user_id, ev) ==
    /\ Returned(Run(St, user_id, ev))
    /\ UNCHANGED <<questions, tasks, base, batch, validated>>

OnCallbackQuery(user_id) ==
    /\ Accepts(user_id)
    /\ \E ev \in CallbackEvents(user_id) : Handle(user_id, ev)

OnStart(user_id) == Accepts(user_id) /\ Handle(user_id, StartEvent)

OnRestart(user_id) == Handle(user_id, RestartEvent)

OnPhoto(user_id) == Accepts(user_id) /\ Handle(user_id, PhotoEvent)

OnMessage(user_id) ==
    /\ Accepts(user_id)
    /\ \E ev \in TextEvents : Handle(user_id, ev)

Next ==
    \E user_id \in Senders :
        \/ OnCallbackQuery(user_id)
        \/ OnStart(user_id)
        \/ OnRestart(user_id)
        \/ OnPhoto(user_id)
        \/ OnMessage(user_id)

Spec == Init /\ [][Next]_vars

(***************************************************************************)
(* SpecConc: the handlers of a batch of events interleave at their awaits  *)
(***************************************************************************)
RemoveAt(seq, k) == SubSeq(seq, 1, k - 1) \o SubSeq(seq, k + 1, Len(seq))

AcceptsConc(user_id) ==
    /\ Len(sent[user_id]) < MaxConcMsg
    /\ Len(answers[user_id]) < MaxConcAnswers

\* the transport hands an event to its handler: a new coroutine
Deliver(user_id, ev) ==
    /\ IF tasks = <<>>
       THEN base' = St /\ batch' = <<[user |-> user_id, ev |-> ev]>>
       ELSE /\ Len(batch) < MaxTasks
            /\ base' = base
            /\ batch' = Append(batch, [user |-> user_id, ev |-> ev])
    /\ tasks' = Append(tasks, Task(user_id, ev, Handler(ev)))
    /\ UNCHANGED <<questions, users, answers, photos, user_messages,
                   waiting_for_answer, waiting_for_photo,
                   waiting_for_followup, sent, lastEvent, validated>>

DeliverCallbackQuery(user_id) ==
    /\ AcceptsConc(user_id)
    /\ \E ev \in CallbackEvents(user_id) : Deliver(user_id, ev)

DeliverStart(user_id) == AcceptsConc(user_id) /\ Deliver(user_id, StartEvent)

DeliverRestart(user_id) == Deliver(user_id, RestartEvent)

DeliverPhoto(user_id) == AcceptsConc(user_id) /\ Deliver(user_id, PhotoEvent)

DeliverMessage(user_id) ==
    /\ AcceptsConc(user_id)
    /\ \E ev \in TextEvents : Deliver(user_id, ev)

\* the event loop resumes coroutine k for one segment
Resume(k) ==
    LET r == Step(St, tasks[k])
    IN  /\ SetSt(r.st)
        /\ IF r.t.pc = "done"
           THEN tasks' = RemoveAt(tasks, k) /\ lastEvent' = Outcome(r.t)
           ELSE tasks' = [tasks EXCEPT ![k] = r.t] /\ lastEvent' = lastEvent
        /\ IF r.t.pc = "done" /\ Len(tasks) = 1
           THEN base' = InitSt /\ batch' = <<>>
           ELSE UNCHANGED <<base, batch>>
        /\ UNCHANGED <<questions, validated>>

NextConc ==
    \/ \E user_id \in Senders :
        \/ DeliverCallbackQuery(user_id)
        \/ DeliverStart(user_id)
        \/ DeliverRestart(user_id)
        \/ DeliverPhoto(user_id)
        \/ DeliverMessage(user_id)
    \/ \E k \in 1..Len(tasks) : Resume(k)

SpecConc == Init /\ [][NextConc]_vars

(***************************************************************************)
(* SpecTwo: two users send events, one event at a time                     *)
(***************************************************************************)
AcceptsTwo(user_id) ==
    /\ Len(sent[user_id]) < MaxTwoMsg
    /\ Len(answers[user_id]) < MaxTwoAnswers

TwoCallbackQuery(user_id) ==
    /\ AcceptsTwo(user_id)
    /\ \E ev \in CallbackEvents(user_id) : Handle(user_id, ev)

TwoStart(user_id) == AcceptsTwo(user_id) /\ Handle(user_id, StartEvent)

TwoRestart(user_id) == Handle(user_id, RestartEvent)

TwoPhoto(user_id) == AcceptsTwo(user_id) /\ Handle(user_id, PhotoEvent)

TwoMessage(user_id) ==
    /\ AcceptsTwo(user_id)
    /\ \E ev \in TextEvents : Handle(user_id, ev)

NextTwo ==
    \E user_id \in Users :
        \/ TwoCallbackQuery(user_id)
        \/ TwoStart(user_id)
        \/ TwoRestart(user_id)
        \/ TwoPhoto(user_id)
        \/ TwoMessage(user_id)

InitTwo == questions \in TwoCatalogs /\ Constructed

SpecTwo == InitTwo /\ [][NextTwo]_vars

(***************************************************************************)
(* SpecGate: two users, the coroutines of their handlers on one event      *)
(* loop. switch_to_assistant_needed is a plain function that waits for the *)
(* response of the classifier inside the coroutine: while it waits, the    *)
(* loop runs no other coroutine and starts none.                           *)
(***************************************************************************)
\* handle_message of coroutine t gets to a call of switch_to_assistant_needed
ReachesGate(st, t) ==
    LET user_data == get_user(create_or_update_user(st, t.user), t.user)
        current_question_index == user_data.current_question_index
    IN  /\ ~user_data.questionnaire_completed
        /\ ~(/\ current_question_index = 0
             /\ t.user \notin st.waiting_for_answer
             /\ t.user \notin st.waiting_for_photo
             /\ ~user_data.waiting_for_followup)
        /\ IF user_data.waiting_for_followup
           THEN HasFollowupText(current_question_index - 1)
           ELSE /\ t.user \in st.waiting_for_answer
                /\ HasQuestion(current_question_index)

\* a coroutine is inside client.responses.create
GatePending == \E g \in 1..Len(tasks) : tasks[g].pc = "gate"

\* coroutine k is at the entry of handle_message and will call the classifier
AtGate(k) == tasks[k].pc = "msg" /\ ReachesGate(St, tasks[k])

\* the event loop starts the coroutine of an event of a user who has none
\* in flight
GateDeliver(user_id) ==
    /\ ~GatePending
    /\ Len(tasks) < MaxTasks
    /\ \A k \in 1..Len(tasks) : tasks[k].user # user_id
    /\ Len(sent[user_id]) < MaxGateMsg
    /\ Len(answers[user_id]) < MaxGateAnswers
    /\ \E ev \in CallbackEvents(user_id) \cup TextEvents \cup {StartEvent} :
           tasks' = Append(tasks, Task(user_id, ev, Handler(ev)))
    /\ UNCHANGED <<questions, users, answers, photos, user_messages,
                   waiting_for_answer, waiting_for_photo,
                   waiting_for_followup, sent, base, batch, lastEvent,
                   validated>>

\* handle_message runs up to the call of switch_to_assistant_needed and
\* waits there for the response
CallGate(k) ==
    /\ ~GatePending
    /\ AtGate(k)
    /\ tasks' = [tasks EXCEPT ![k].pc = "gate"]
    /\ UNCHANGED <<questions, users, answers, photos, user_messages,
                   waiting_for_answer, waiting_for_photo,
                   waiting_for_followup, sent, base, batch, lastEvent,
                   validated>>

\* the event loop resumes coroutine k for one segment: the coroutine that
\* waits for the classifier once the response is there, any other coroutine
\* only while no call is pending
ResumeGate(k) ==
    /\ IF GatePending THEN tasks[k].pc = "gate" ELSE ~AtGate(k)
    /\ Resume(k)

NextGate ==
    \/ \E user_id \in Users : GateDeliver(user_id)
    \/ \E k \in 1..Len(tasks) : CallGate(k)
    \/ \E k \in 1..Len(tasks) : ResumeGate(k)

\* one typed question: its answers go through the classifier
InitGate == questions = <<Question("scale", 1, 3, <<>>, FALSE)>> /\ Constructed

SpecGate == InitGate /\ [][NextGate]_vars

(***************************************************************************)
(* SpecCoop: one user who starts and then answers the message shown last   *)
(* with an input its kind asks for; no store call fails and the classifier *)
(* routes nothing                                                          *)
(***************************************************************************)
\* the keyboard of the message the chat shows last
Shown(user_id) == sent[user_id][Len(sent[user_id])]

Responding(user_id) ==
    /\ sent[user_id] # <<>>
    /\ ~users[user_id].questionnaire_completed

\* the user sends /start to a bot that has sent nothing yet
CoopStart(user_id) ==
    /\ sent[user_id] = <<>>
    /\ ~users[user_id].questionnaire_completed
    /\ Handle(user_id, StartEvent)

\* the user presses a button of the message shown last: start, yes or no,
\* or a skip button
CoopPress(user_id) ==
    /\ Responding(user_id)
    /\ Shown(user_id).k # "continue"
    /\ \E ev \in PressesOf(St, user_id, Len(sent[user_id])) :
           Handle(user_id, ev)

\* the user types an answer the validator accepts to the typed question
\* shown last
CoopAnswer(user_id) ==
    /\ Responding(user_id)
    /\ Shown(user_id).k = "skip_text"
    /\ \E body \in TextInputs :
           /\ validate_answer(Shown(user_id).qi, Strip(body)).ok
           /\ Handle(user_id,
                     Event("text", NoMsg, "-", 0, "-", body, FALSE))

\* the user types the follow-up text the prompt shown last asks for
CoopFollowup(user_id) ==
    /\ Responding(user_id)
    /\ Shown(user_id).k = "skip_followup"
    /\ \E body \in TextInputs :
           Handle(user_id, Event("text", NoMsg, "-", 0, "-", body, FALSE))

\* the user sends a photo to the photo question shown last
CoopPhoto(user_id) ==
    /\ Responding(user_id)
    /\ Shown(user_id).k = "skip_photo"
    /\ Handle(user_id, PhotoEvent)

NextCoop ==
    \E user_id \in Senders :
        \/ CoopStart(user_id)
        \/ CoopPress(user_id)
        \/ CoopAnswer(user_id)
        \/ CoopFollowup(user_id)
        \/ CoopPhoto(user_id)

InitCoop == questions \in Catalogs \cup ShortCatalogs /\ Constructed

\* the user has an input to send: NextCoop is enabled
CoopPending ==
    \E user_id \in Senders :
        /\ ~users[user_id].questionnaire_completed
        /\ sent[user_id] = <<>> \/ Shown(user_id).k # "continue"

\* weak fairness of NextCoop: the user goes on answering and every event is
\* handled. It is WF_vars(NextCoop) with the enabling condition written as
\* the state predicate CoopPending.
CoopFairness == []<>(~CoopPending) \/ []<><<NextCoop>>_vars

SpecCoop == InitCoop /\ [][NextCoop]_vars /\ CoopFairness

(***************************************************************************)
(* SpecValidate: validate_answer called on the question of a one-question  *)
(* catalog, with every input up to MaxLen characters                       *)
(***************************************************************************)
Alphabet == {" ", "0", "1", "2", "a", "A", "-", "_"}

\* the strings of at most n characters
Strings(n) == UNION { [1..k -> Alphabet] : k \in 0..n }

ChoiceTexts == { <<"a">>, <<"A">>, <<"2">>, <<"1", "a">> }

\* the choice lists of at most MaxChoices choices; the loader refuses an
\* empty list
ChoiceLists == UNION { [1..k -> ChoiceTexts] : k \in 1..MaxChoices }

ScaleMins == {-1, 1}
ScaleMaxs == {0, 2, 10}

ValidateCatalogs ==
    { << Question("choice", 1, 10, c, FALSE) >> : c \in ChoiceLists }
    \cup { << Question("scale", lo, hi, <<>>, FALSE) >> :
               lo \in ScaleMins, hi \in ScaleMaxs }
    \cup { << Question("yes_no", 1, 10, <<>>, FALSE) >>,
            << Question("text", 1, 10, <<>>, FALSE) >> }

\* the call validate_answer(0, answer), once
Validate ==
    /\ validated = NoCall
    /\ \E answer \in Strings(MaxLen) :
           LET v == validate_answer(0, answer)
           IN  validated' = [question_index |-> 0, answer |-> answer,
                             ok |-> v.ok, value |-> v.value]
    /\ UNCHANGED <<questions, users, answers, photos, user_messages,
                   waiting_for_answer, waiting_for_photo,
                   waiting_for_followup, sent, tasks, base, batch, lastEvent>>

InitValidate == questions \in ValidateCatalogs /\ Constructed

SpecValidate == InitValidate /\ [][Validate]_vars

(***************************************************************************)
(* SpecLoad: the catalog is loaded from a source of at most MaxEntries      *)
(* entries                                                                 *)
(***************************************************************************)
QuestionTypes == {"text", "choice", "scale", "yes_no", "photo"}

\* the dict entries of a source: "type" may name no QuestionType, "choices"
\* may be absent or empty (<<>> for both: `not self.choices` is true of
\* both), the scale bounds are any integers
Entries ==
    [type : QuestionTypes \cup {"bogus"},
     choices : {<<>>, << <<"a">> >>},
     scale_min : {1, 3},
     scale_max : {2}]

Sources == UNION { [1..k -> Entries] : k \in 1..MaxEntries }

\* Question(...) returns: QuestionType(type) and __post_init__ do not raise
__post_init__(item) ==
    /\ item.type \in QuestionTypes
    /\ ~(item.type = "choice" /\ item.choices = <<>>)

\* _load_json_questions: the questions of the entries, in order; ok is FALSE
\* when an entry raises, and then nothing is loaded
_load_json_questions(data) ==
    [ok |-> \A i \in 1..Len(data) : __post_init__(data[i]),
     questions |->
         [i \in 1..Len(data) |->
             Question(data[i].type, data[i].scale_min, data[i].scale_max,
                      data[i].choices, FALSE)]]

\* QuestionManager.__init__ on a source: the bot exists only if it returns
load_questions ==
    /\ questions = <<>>
    /\ \E data \in Sources :
           /\ _load_json_questions(data).ok
           /\ questions' = _load_json_questions(data).questions
    /\ UNCHANGED <<users, answers, photos, user_messages,
                   waiting_for_answer, waiting_for_photo,
                   waiting_for_followup, sent, tasks, base, batch, lastEvent,
                   validated>>

InitLoad == questions = <<>> /\ Constructed

SpecLoad == InitLoad /\ [][load_questions]_vars

(***************************************************************************)
(* SpecFail: one event at a time; the environment may fail one store call  *)
(* of the handler, or the classifier call                                  *)
(***************************************************************************)
AcceptsFail(user_id) ==
    /\ Len(sent[user_id]) < MaxFailMsg
    /\ Len(answers[user_id]) < MaxFailAnswers

\* the event handled with no failure, or with one store call failing
StoreFailures(ev) ==
    {ev} \cup { WithStoreFailure(ev, n, stmt) :
                   n \in 1..MaxFail, stmt \in Statements }

FailCallbackQuery(user_id) ==
    /\ AcceptsFail(user_id)
    /\ \E ev \in CallbackEvents(user_id) :
           \E f \in StoreFailures(ev) : Handle(user_id, f)

FailStart(user_id) ==
    /\ AcceptsFail(user_id)
    /\ \E f \in StoreFailures(StartEvent) : Handle(user_id, f)

FailRestart(user_id) ==
    \E f \in StoreFailures(RestartEvent) : Handle(user_id, f)

FailPhoto(user_id) ==
    /\ AcceptsFail(user_id)
    /\ \E f \in StoreFailures(PhotoEvent) : Handle(user_id, f)

FailMessage(user_id) ==
    /\ AcceptsFail(user_id)
    /\ \E ev \in TextEvents :
           \/ \E f \in StoreFailures(ev) : Handle(user_id, f)
           \/ Handle(user_id, WithGateFailure(ev))

NextFail ==
    \E user_id \in Senders :
        \/ FailCallbackQuery(user_id)
        \/ FailStart(user_id)
        \/ FailRestart(user_id)
        \/ FailPhoto(user_id)
        \/ FailMessage(user_id)

InitFail == questions \in ShortCatalogs /\ Constructed

SpecFail == InitFail /\ [][NextFail]_vars

(***************************************************************************)
(* Properties                                                              *)
(***************************************************************************)
AnswerButtons == {"yn", "skip_photo", "skip_followup", "skip_text"}

\* the PendingPromptToken on file
Token(user_id) == user_messages[user_id]

\* C1: a yes/no or skip button press whose message id differs from the
\* token on file is rejected as stale and changes nothing: no answer row,
\* same progress, same token, same waiting sets, no new prompt.
C1_StaleRejected ==
    \A user_id \in Users : \A ev \in CallbackEvents(user_id) :
        (/\ ev.k \in AnswerButtons
         /\ Token(user_id) # NoMsg
         /\ ev.mid # Token(user_id))
        => LET r == Run(St, user_id, ev)
           IN  r.t.res = "stale" /\ r.st = St

\* a stale press has been handled while a token was on file
C1_Witness ==
    /\ lastEvent.type = "callback"
    /\ lastEvent.res = "stale"
    /\ lastEvent.k \in AnswerButtons
    /\ Token(lastEvent.user) # NoMsg

\* C2: the press of a button of the current prompt, delivered a second time
\* after the first delivery has been handled, is rejected as stale and adds
\* no answer row and no advance.
C2_ReplayOnce ==
    \A user_id \in Users : \A ev \in CallbackEvents(user_id) :
        (ev.k \in AnswerButtons /\ ev.mid = Token(user_id))
        => LET r1 == Run(St, user_id, ev)
               r2 == Run(r1.st, user_id, ev)
           IN  /\ r2.t.res = "stale"
               /\ r2.st.answers = r1.st.answers
               /\ r2.st.users = r1.st.users

\* what the claims call the durable state of a user; the token is compared
\* by the prompt it stands for
Durable(st, user_id) ==
    [progress |-> st.users[user_id],
     answers |-> st.answers[user_id],
     photos |-> st.photos[user_id],
     token |-> IF st.user_messages[user_id] = NoMsg THEN Keyboard("-", 0)
               ELSE st.sent[user_id][st.user_messages[user_id]]]

\* St after the step
StNext ==
    [users |-> users', answers |-> answers', photos |-> photos',
     user_messages |-> user_messages',
     waiting_for_answer |-> waiting_for_answer',
     waiting_for_photo |-> waiting_for_photo',
     waiting_for_followup |-> waiting_for_followup',
     sent |-> sent']

Serial(st, b1, b2) == Run(Run(st, b1.user, b1.ev).st, b2.user, b2.ev).st

\* C3: when two events of one user have been handled concurrently, the
\* durable state is the one of handling them one after the other in some
\* order.
C3_Serializable ==
    [][(/\ Len(tasks) = 1 /\ tasks' = <<>>
        /\ Len(batch) = 2 /\ batch[1].user = batch[2].user
        /\ \A k \in 1..2 : batch[k].ev.type \in {"callback", "text", "photo"})
       => Durable(StNext, batch[1].user) \in
              { Durable(Serial(base, batch[1], batch[2]), batch[1].user),
                Durable(Serial(base, batch[2], batch[1]), batch[1].user) }]_vars

\* C4: current_question_index never decreases, except by a restart.
C4_IndexMonotonic ==
    [][\A user_id \in Users :
          \/ users'[user_id].current_question_index
               >= users[user_id].current_question_index
          \/ (lastEvent'.type = "restart" /\ lastEvent'.user = user_id)]_vars

\* C5: waiting_for_followup is true exactly when followup_question_index
\* is set.
C5_FollowupFlagIffIndex ==
    \A user_id \in Users :
        users[user_id].waiting_for_followup
            <=> users[user_id].followup_question_index # NULL

\* a user is in the follow-up wait
C5_Witness ==
    \E user_id \in Users :
        /\ users[user_id].waiting_for_followup
        /\ lastEvent.res = "followup"

\* C6: waiting_for_followup implies that followup_question_index is set
\* and is below current_question_index.
C6_FollowupBelowIndex ==
    \A user_id \in Users :
        users[user_id].waiting_for_followup
        => /\ users[user_id].followup_question_index # NULL
           /\ users[user_id].followup_question_index
                < users[user_id].current_question_index

\* C7: a completed user's current_question_index is at least the number of
\* questions.
C7_CompletedAtEnd ==
    \A user_id \in Users :
        users[user_id].questionnaire_completed
        => users[user_id].current_question_index >= get_total_questions

NotStarted(st, user_id) ==
    /\ st.answers[user_id] = <<>>
    /\ st.photos[user_id] = <<>>
    /\ st.user_messages[user_id] = NoMsg
    /\ st.users[user_id].current_question_index = 0
    /\ ~st.users[user_id].waiting_for_followup
    /\ st.users[user_id].followup_question_index = NULL
    /\ ~st.users[user_id].questionnaire_completed
    /\ st.users[user_id].completed_at = NULL
    /\ user_id \notin st.waiting_for_answer
    /\ user_id \notin st.waiting_for_photo
    /\ user_id \notin st.waiting_for_followup

\* C8: a restart is handled in every state and leaves the user not started:
\* no answers, no photos, no token, index 0, no follow-up wait, not
\* completed, in no waiting set; a second restart changes nothing more.
C8_RestartResets ==
    \A user_id \in Users :
        LET r1 == Run(St, user_id, RestartEvent)
            r2 == Run(r1.st, user_id, RestartEvent)
        IN  /\ r1.t.res = "reset"
            /\ NotStarted(r1.st, user_id)
            /\ r2.st = r1.st

\* a restart has been handled for a user who had been past question 0
C8_Witness ==
    /\ lastEvent.type = "restart"
    /\ NotStarted(St, lastEvent.user)
    /\ \E mid \in 1..Len(sent[lastEvent.user]) :
           sent[lastEvent.user][mid].k = "yn"

\* the user has been shown yes/no question i and the durable position is i
AwaitingYesNo(user_id, i) ==
    /\ users[user_id].exists
    /\ ~users[user_id].questionnaire_completed
    /\ ~users[user_id].waiting_for_followup
    /\ users[user_id].current_question_index = i
    /\ Token(user_id) # NoMsg
    /\ sent[user_id][Token(user_id)] = Keyboard("yn", i)

\* C9: at a yes/no question i with a follow-up, the text "Ano", not routed
\* by the gate, is recorded as the answer and puts the user in the
\* follow-up wait for i.
C9_TextYesEntersFollowup ==
    \A user_id \in Users : \A i \in 0..(get_total_questions - 1) :
        (AwaitingYesNo(user_id, i) /\ get_question(i).has_followup)
        => LET ev == Event("text", NoMsg, "-", 0, "-", S_Ano, FALSE)
               r == Run(St, user_id, ev).st
           IN  /\ r.answers[user_id] =
                     Append(answers[user_id], AnswerRow(i, S_Ano, "text", 0))
               /\ r.users[user_id].waiting_for_followup
               /\ r.users[user_id].followup_question_index = i

\* C10: skipping a text question i, whatever question i is, appends the
\* sentinel row of kind text, does not enter the follow-up wait, sends no
\* follow-up prompt, sets the index to i+1 for a user who is not in a
\* follow-up wait, and goes on to question i+1 (or completes).
C10_SkipTextNoFollowup ==
    \A user_id \in Users : \A i \in 0..(get_total_questions - 1) :
        users[user_id].exists
        => LET ev == Event("callback", NoMsg, "skip_text", i, "-", <<>>, FALSE)
               r == RunTask(Go(St, Task(user_id, ev, "cb_dispatch"))).st
               u1 == r.users[user_id]
           IN  /\ r.answers[user_id] =
                     Append(answers[user_id], AnswerRow(i, S_None, "text", 0))
               /\ u1.waiting_for_followup
                     => users[user_id].waiting_for_followup
               /\ u1.followup_question_index
                     \in {NULL, users[user_id].followup_question_index}
               /\ user_id \in r.waiting_for_followup
                     => user_id \in waiting_for_followup
               /\ \A mid \in (Len(sent[user_id]) + 1)..Len(r.sent[user_id]) :
                      r.sent[user_id][mid].k # "skip_followup"
               /\ ~users[user_id].waiting_for_followup
                     => u1.current_question_index = i + 1
               /\ IF i + 1 >= get_total_questions
                  THEN u1.questionnaire_completed
                  ELSE /\ Len(r.sent[user_id]) = Len(sent[user_id]) + 1
                       /\ r.sent[user_id][Len(r.sent[user_id])].qi = i + 1
                       /\ r.user_messages[user_id] = Len(r.sent[user_id])

\* a skip of a text question has been handled
C10_Witness ==
    /\ lastEvent.type = "callback"
    /\ lastEvent.k = "skip_text"
    /\ lastEvent.res = "skipped"
    /\ \E k \in 1..Len(answers[lastEvent.user]) :
           answers[lastEvent.user][k] =
               AnswerRow(lastEvent.qi, S_None, "text", 0)

\* a text message with the classifier's answer
TextEvent(body, route) == Event("text", NoMsg, "-", 0, "-", body, route)

\* the user is asked for a typed answer and the durable position is i
AwaitingAnswer(user_id, i) ==
    /\ users[user_id].exists
    /\ ~users[user_id].questionnaire_completed
    /\ ~users[user_id].waiting_for_followup
    /\ user_id \in waiting_for_answer
    /\ users[user_id].current_question_index = i

\* the user is in the follow-up wait of question i
AwaitingFollowup(user_id, i) ==
    /\ users[user_id].exists
    /\ ~users[user_id].questionnaire_completed
    /\ users[user_id].waiting_for_followup
    /\ users[user_id].followup_question_index = i

\* C11: a text the validator rejects at question i changes nothing: no
\* answer row, same index and follow-up fields, the user still in
\* waiting_for_answer; a valid answer sent afterwards is recorded for i.
C11_RejectedKeepsState ==
    \A user_id \in Users : \A i \in 0..(get_total_questions - 1) :
        \A body \in TextInputs :
            (AwaitingAnswer(user_id, i) /\ ~validate_answer(i, body).ok)
            => LET r == Run(St, user_id, TextEvent(body, FALSE))
               IN  /\ r.t.res = "invalid"
                   /\ r.st = St
                   /\ \A good \in TextInputs :
                          validate_answer(i, good).ok
                          => Run(r.st, user_id, TextEvent(good, FALSE))
                                 .st.answers[user_id]
                             = Append(answers[user_id],
                                      AnswerRow(i,
                                          validate_answer(i, good).value,
                                          "text", 0))

\* a text has been rejected and the user is still asked for the answer
C11_Witness ==
    /\ lastEvent.type = "text"
    /\ lastEvent.res = "invalid"
    /\ lastEvent.user \in waiting_for_answer
    /\ answers[lastEvent.user] = <<>>

\* C12: at a question that takes a typed answer and in the follow-up wait,
\* a text the classifier routes externally is not validated and changes
\* nothing in the store, the waiting sets or the chat.
C12_RoutedKeepsState ==
    \A user_id \in Users : \A body \in TextInputs :
        (\E i \in 0..(get_total_questions - 1) :
            AwaitingAnswer(user_id, i) \/ AwaitingFollowup(user_id, i))
        => LET r == Run(St, user_id, TextEvent(body, TRUE))
           IN  r.t.res = "routed" /\ r.st = St

\* a text has been routed externally during a follow-up wait
C12_Witness ==
    /\ lastEvent.type = "text"
    /\ lastEvent.res = "routed"
    /\ users[lastEvent.user].waiting_for_followup

\* C13: a text handled while the classifier call raises is processed as if
\* the classifier had answered "do not route".
C13_GateFailureFailsOpen ==
    \A user_id \in Users : \A body \in TextInputs :
        (\E i \in 0..(get_total_questions - 1) :
            AwaitingAnswer(user_id, i) \/ AwaitingFollowup(user_id, i))
        => Run(St, user_id, WithGateFailure(TextEvent(body, FALSE))).st
           = Run(St, user_id, TextEvent(body, FALSE)).st

\* the follow-up inputs of the user in the follow-up wait of question i: a
\* text the classifier does not route, and the skip button of the prompt on
\* file
FollowupInputs(user_id, i) ==
    { [ev |-> TextEvent(body, FALSE), value |-> Strip(body)] :
         body \in TextInputs }
    \cup { [ev |-> ev, value |-> S_None] :
             ev \in { p \in CallbackEvents(user_id) :
                        /\ p.k = "skip_followup" /\ p.qi = i
                        /\ p.mid = Token(user_id) } }

\* C14: from the follow-up wait of question i, a text that is not routed
\* or the skip of the follow-up stores the value with the answer of i,
\* clears waiting_for_followup and followup_question_index, leaves
\* current_question_index at i+1 and prompts question i+1 (or completes).
C14_FollowupAdvances ==
    \A user_id \in Users : \A i \in 0..(get_total_questions - 1) :
        AwaitingFollowup(user_id, i)
        => \A inp \in FollowupInputs(user_id, i) :
              LET r == Run(St, user_id, inp.ev).st
                  answer_id == LastAnswerOf(answers[user_id], i)
              IN  /\ answer_id # 0
                  /\ r.answers[user_id][answer_id].followup_text = inp.value
                  /\ ~r.users[user_id].waiting_for_followup
                  /\ r.users[user_id].followup_question_index = NULL
                  /\ r.users[user_id].current_question_index = i + 1
                  /\ IF i + 1 >= get_total_questions
                     THEN r.users[user_id].questionnaire_completed
                     ELSE /\ Len(r.sent[user_id]) = Len(sent[user_id]) + 1
                          /\ r.sent[user_id][Len(r.sent[user_id])].qi = i + 1
                          /\ r.user_messages[user_id] = Len(r.sent[user_id])

\* C15: a photo recorded while waiting_for_followup is true leaves
\* current_question_index; a photo recorded otherwise sets it to the index
\* of the photo question plus one.
C15_PhotoAdvanceRule ==
    \A user_id \in Users :
        LET r == Run(St, user_id, PhotoEvent)
            u == users[user_id]
        IN  r.t.res = "saved"
            => r.st.users[user_id].current_question_index =
                   IF u.waiting_for_followup THEN u.current_question_index
                   ELSE u.current_question_index + 1

Last(seq) == seq[Len(seq)]

\* C16: for a user who is not waiting for a follow-up, the answer row and
\* current_question_index = index + 1 are committed together or not at all:
\* a step appends a row exactly when it sets the index to the row's index
\* plus one, also when a statement of save_answer or its commit raises.
C16_SaveAnswerAtomic ==
    [][\A user_id \in Users :
          (~users[user_id].waiting_for_followup
           /\ lastEvent'.type # "restart")
          => /\ Len(answers'[user_id]) > Len(answers[user_id])
                => users'[user_id].current_question_index =
                       Last(answers'[user_id]).question_index + 1
             /\ users'[user_id].current_question_index
                   # users[user_id].current_question_index
                => Len(answers'[user_id]) = Len(answers[user_id]) + 1
             /\ lastEvent'.raised = "save_answer"
                => /\ answers'[user_id] = answers[user_id]
                   /\ users'[user_id] = users[user_id]]_vars

\* save_answer has raised for a user who is not waiting for a follow-up
C16_Witness ==
    /\ lastEvent.raised = "save_answer"
    /\ lastEvent.res = "error"
    /\ ~users[lastEvent.user].waiting_for_followup
    /\ users[lastEvent.user].exists

StoreMethods ==
    {"create_or_update_user", "get_user", "get_user_answers", "save_answer",
     "save_photo", "set_waiting_for_followup", "save_followup_answer",
     "mark_questionnaire_completed", "reset_user_progress",
     "save_user_message", "get_user_last_message", "clear_user_messages"}

\* the durable state of the claims, an absent row of users read as the
\* default progress
Committed(st, user_id) ==
    [Durable(st, user_id) EXCEPT !.progress.exists = TRUE]

\* C17: when a store call raises while an event is handled, the durable
\* state after the event (answers, photos, progress, token) is the one
\* before it.
C17_FailureCommitsNothing ==
    [][lastEvent'.raised \in StoreMethods
       => Committed(StNext, lastEvent'.user)
          = Committed(St, lastEvent'.user)]_vars

\* C18: when a store call raises while an event is handled, the user is in
\* the same in-memory waiting sets after the event as before it.
C18_FailureKeepsWaitingSets ==
    [][lastEvent'.raised \in StoreMethods
       => /\ waiting_for_answer' = waiting_for_answer
          /\ waiting_for_photo' = waiting_for_photo
          /\ waiting_for_followup' = waiting_for_followup]_vars

\* C19: an event that leaves the user at an index at or past the number of
\* questions, outside a follow-up wait, has marked the user completed:
\* completed with completed_at set and the follow-up fields cleared.
C19_EndReachedCompletes ==
    \A user_id \in Users :
        (/\ users[user_id].current_question_index >= get_total_questions
         /\ ~users[user_id].waiting_for_followup)
        => /\ users[user_id].questionnaire_completed
           /\ users[user_id].completed_at # NULL
           /\ users[user_id].followup_question_index = NULL

\* the last question has been answered or skipped and the user is completed
C19_Witness ==
    /\ lastEvent.res \in {"saved", "skipped", "followup_saved"}
    /\ users[lastEvent.user].current_question_index >= get_total_questions
    /\ users[lastEvent.user].questionnaire_completed

\* C20: for a completed user a text or a photo changes nothing, and the
\* classifier is not called: the outcome is the same whatever the
\* classifier would answer, also if it would raise.
C20_CompletedIgnoresMessages ==
    \A user_id \in Users :
        users[user_id].questionnaire_completed
        => \A ev \in TextEvents
                       \cup { WithGateFailure(e) : e \in TextEvents }
                       \cup {PhotoEvent} :
              LET r == Run(St, user_id, ev)
              IN  r.t.res = "completed" /\ r.st = St

\* a completed user has sent a text or a photo
C20_Witness ==
    /\ lastEvent.type \in {"text", "photo"}
    /\ lastEvent.res = "completed"
    /\ users[lastEvent.user].questionnaire_completed

\* the event sent the user a prompt that carries yes/no or skip buttons
SentPrompt(st, r, user_id) ==
    /\ Len(r.st.sent[user_id]) > Len(st.sent[user_id])
    /\ Last(r.st.sent[user_id]).k \in AnswerButtons

\* C21: after an event that sent the user a prompt with yes/no or skip
\* buttons (a question, a follow-up prompt, the follow-up prompt /start
\* sends again) the stored message id is the id of that prompt; after
\* completion or /restart no message id is stored.
C21_TokenIsLatestPrompt ==
    \A user_id \in Users :
        \A ev \in CallbackEvents(user_id) \cup TextEvents
                     \cup {StartEvent, RestartEvent, PhotoEvent} :
            LET r == Run(St, user_id, ev)
            IN  /\ SentPrompt(St, r, user_id)
                   => r.st.user_messages[user_id]
                          = Len(r.st.sent[user_id])
                /\ (\/ r.t.res = "reset"
                    \/ /\ r.st.users[user_id].questionnaire_completed
                       /\ ~users[user_id].questionnaire_completed)
                   => r.st.user_messages[user_id] = NoMsg

\* the durable position of the user is the photo question i, outside a
\* follow-up wait
AwaitingPhoto(user_id, i) ==
    /\ users[user_id].exists
    /\ ~users[user_id].questionnaire_completed
    /\ ~users[user_id].waiting_for_followup
    /\ users[user_id].current_question_index = i
    /\ HasQuestion(i)
    /\ get_question(i).question_type = "photo"

\* st is the state of a user who has just been asked question j, or the
\* completed state when j is past the last question
StateFor(st, user_id, j) ==
    LET u == st.users[user_id]
        type == get_question(j).question_type
    IN  /\ u.current_question_index = j
        /\ ~u.waiting_for_followup
        /\ user_id \notin st.waiting_for_followup
        /\ IF ~HasQuestion(j)
           THEN /\ u.questionnaire_completed
                /\ user_id \notin st.waiting_for_answer
                /\ user_id \notin st.waiting_for_photo
           ELSE /\ ~u.questionnaire_completed
                /\ Last(st.sent[user_id]).qi = j
                /\ st.user_messages[user_id] = Len(st.sent[user_id])
                /\ (user_id \in st.waiting_for_photo) = (type = "photo")
                /\ (user_id \in st.waiting_for_answer)
                       = (type \notin {"photo", "yes_no"})

\* C22: a photo sent at the photo question i adds one row to photos and one
\* row of type photo to answers, both for i, and sets the index to i + 1;
\* the three writes are committed together or, when the transaction of
\* save_photo raises at any of its statements or at its commit, not at all;
\* with no failure the user is then in the state of question i + 1.
C22_PhotoRecordedAtomically ==
    [][\A user_id \in Users : \A i \in 0..(get_total_questions - 1) :
          (AwaitingPhoto(user_id, i) /\ lastEvent'.type = "photo")
          => LET recorded ==
                   /\ photos'[user_id] =
                          Append(photos[user_id],
                                 [question_index |-> i, file_id |-> 1])
                   /\ answers'[user_id] =
                          Append(answers[user_id],
                                 AnswerRow(i, S_Photo, "photo", 1))
                   /\ users'[user_id].current_question_index = i + 1
                 nothing ==
                   /\ photos'[user_id] = photos[user_id]
                   /\ answers'[user_id] = answers[user_id]
                   /\ users'[user_id].current_question_index = i
             IN  /\ recorded \/ nothing
                 /\ lastEvent'.raised \in {"get_user", "save_photo"}
                    => nothing
                 /\ lastEvent'.raised = "-"
                    => recorded /\ StateFor(StNext, user_id, i + 1)]_vars

\* a photo has been recorded at the photo question with no failure
C22_Witness ==
    /\ lastEvent.type = "photo"
    /\ lastEvent.res = "saved"
    /\ lastEvent.raised = "-"
    /\ photos[lastEvent.user] # <<>>

\* the rows of the table answers, of all users
AnswerRows(st) ==
    UNION { { <<user_id, k>> : k \in 1..Len(st.answers[user_id]) } :
              user_id \in Users }

\* get_statistics: COUNT(*) FROM photos
total_photos(st) ==
    Cardinality(UNION { { <<user_id, k>> : k \in 1..Len(st.photos[user_id]) } :
                          user_id \in Users })

\* get_statistics: COUNT(*) FROM answers WHERE answer_type = 'photo' AND
\* answer_text = 'None'
skipped_photos(st) ==
    Cardinality({ p \in AnswerRows(st) :
                    /\ st.answers[p[1]][p[2]].answer_type = "photo"
                    /\ st.answers[p[1]][p[2]].answer_text = S_None })

\* the presses of the skip button of the prompt on file, a photo prompt
SkipPhotoPresses(user_id) ==
    { ev \in CallbackEvents(user_id) :
        ev.k = "skip_photo" /\ ev.mid = Token(user_id) }

\* C23: the skip button of the current photo prompt, pressed at the photo
\* question i, adds exactly one answers row of type photo with the text
\* None and no photos row, and leaves the user in the state of question
\* i + 1 (completed when i is the last question); skipped_photos grows by
\* one and the count of photos is unchanged.
C23_SkipPhotoRecorded ==
    \A user_id \in Users : \A i \in 0..(get_total_questions - 1) :
        AwaitingPhoto(user_id, i)
        => \A ev \in SkipPhotoPresses(user_id) :
              LET r == Run(St, user_id, ev)
              IN  /\ ev.qi = i
                  /\ r.t.res = "skipped"
                  /\ r.st.answers[user_id] =
                         Append(answers[user_id],
                                AnswerRow(i, S_None, "photo", 0))
                  /\ r.st.photos = photos
                  /\ StateFor(r.st, user_id, i + 1)
                  /\ skipped_photos(r.st) = skipped_photos(St) + 1
                  /\ total_photos(r.st) = total_photos(St)

\* the skip button of the current photo prompt has been pressed
C23_Witness ==
    /\ lastEvent.type = "callback"
    /\ lastEvent.k = "skip_photo"
    /\ lastEvent.res = "skipped"
    /\ skipped_photos(St) = 1
    /\ total_photos(St) = 0
    /\ users[lastEvent.user].questionnaire_completed

\* the process is started again: __init__ builds empty waiting sets, the
\* store is what it was
__init__(st) ==
    [st EXCEPT !.waiting_for_answer = {},
               !.waiting_for_photo = {},
               !.waiting_for_followup = {}]

\* C24: after a restart of the process (waiting sets empty, store intact) a
\* valid text the classifier does not route, sent by a user who had been
\* asked the typed question i and whose durable position is i, is recorded
\* for i and sets the index to i + 1, as it is without the restart.
C24_PositionSurvivesRestart ==
    \A user_id \in Users : \A i \in 0..(get_total_questions - 1) :
        \A body \in TextInputs :
            (AwaitingAnswer(user_id, i) /\ validate_answer(i, body).ok)
            => LET r == Run(__init__(St), user_id, TextEvent(body, FALSE))
               IN  /\ Durable(r.st, user_id)
                      = Durable(Run(St, user_id, TextEvent(body, FALSE)).st,
                                user_id)
                   /\ Len(r.st.answers[user_id]) = Len(answers[user_id]) + 1
                   /\ Last(r.st.answers[user_id]).question_index = i
                   /\ r.st.users[user_id].current_question_index = i + 1

\* what the store and the waiting sets hold of one user
OfUser(st, user_id) ==
    [progress |-> st.users[user_id],
     answers |-> st.answers[user_id],
     photos |-> st.photos[user_id],
     token |-> st.user_messages[user_id],
     waiting_for_answer |-> user_id \in st.waiting_for_answer,
     waiting_for_photo |-> user_id \in st.waiting_for_photo,
     waiting_for_followup |-> user_id \in st.waiting_for_followup]

\* C25: handling an event of one user leaves the users row, the answers,
\* the photos, the stored message id and the membership in the three
\* waiting sets of every other user unchanged.
C25_OtherUsersUnchanged ==
    [][\A user_id \in Users :
          user_id # lastEvent'.user
          => OfUser(StNext, user_id) = OfUser(St, user_id)]_vars

\* an answer, a /restart or a completion of one user while the other user
\* is in a waiting set and has an answer and a stored message id
C25_Witness ==
    \E user_id \in Users :
        /\ user_id # lastEvent.user
        /\ lastEvent.res \in {"reset", "saved", "followup_saved", "skipped"}
        /\ \/ lastEvent.res = "reset"
           \/ users[lastEvent.user].questionnaire_completed
        /\ user_id \in waiting_for_followup
        /\ answers[user_id] # <<>>
        /\ user_messages[user_id] # NoMsg

\* an answers row without its follow-up value
Recorded(row) == [row EXCEPT !.followup_text = <<>>]

\* C26: except for /restart, no event removes a row of answers or changes
\* the question index, the answer or the type of a row: the rows before the
\* event are the first rows after it, up to their follow-up value.
C26_AnswersAppendOnly ==
    [][\A user_id \in Users :
          lastEvent'.type # "restart"
          => /\ Len(answers'[user_id]) >= Len(answers[user_id])
             /\ \A k \in 1..Len(answers[user_id]) :
                    Recorded(answers'[user_id][k])
                        = Recorded(answers[user_id][k])]_vars

\* a follow-up text has been written into a row recorded earlier
C26_Witness ==
    /\ lastEvent.res = "followup_saved"
    /\ \E k \in 1..Len(answers[lastEvent.user]) :
           /\ answers[lastEvent.user][k].followup_text # <<>>
           /\ k < Len(answers[lastEvent.user])

\* validate_answer has been called on a question of the given type
Validated(type) ==
    /\ validated.question_index = 0
    /\ get_question(0).question_type = type

\* the elements of a sequence
Range(seq) == { seq[k] : k \in 1..Len(seq) }

\* C27: on a choice question with choices c1..cn an input is accepted
\* exactly when, trimmed, it is a numeral k with 1 <= k <= n or equals a
\* choice ignoring case; the result is ck for the numeral, which comes
\* first, and otherwise a choice the input equals ignoring case; every
\* result is in the choice list.
C27_ChoiceAccepted ==
    Validated("choice")
    => LET choices == get_question(0).choices
           answer == Strip(validated.answer)
           n == ParseInt(answer)
           numeral == n.ok /\ 1 <= n.val /\ n.val <= Len(choices)
           matches == { k \in 1..Len(choices) :
                          Lower(answer) = Lower(choices[k]) }
       IN  /\ validated.ok = (numeral \/ matches # {})
           /\ numeral => validated.value = choices[n.val]
           /\ (~numeral /\ matches # {})
              => \E k \in matches : validated.value = choices[k]
           /\ validated.ok => validated.value \in Range(choices)

\* an input that is both a numeral in range and the text of another choice
\* has been accepted as the numeral
C27_Witness ==
    /\ Validated("choice")
    /\ validated.ok
    /\ validated.answer = <<" ", "1">>
    /\ get_question(0).choices = << <<"2">>, <<"1", "a">> >>
    /\ validated.value = <<"2">>

\* C28: on a scale question an input is accepted exactly when, trimmed, it
\* parses as an integer v with scale_min <= v <= scale_max, both bounds
\* included, and the result is v written in decimal.
C28_ScaleAccepted ==
    Validated("scale")
    => LET question == get_question(0)
           n == ParseInt(Strip(validated.answer))
       IN  /\ validated.ok = (/\ n.ok
                              /\ question.scale_min <= n.val
                              /\ n.val <= question.scale_max)
           /\ validated.ok
              => /\ validated.value = IntToStr(n.val)
                 /\ ParseInt(validated.value) = [ok |-> TRUE, val |-> n.val]

\* the upper bound, written with a leading zero and a trailing blank, has
\* been accepted
C28_Witness ==
    /\ Validated("scale")
    /\ get_question(0).scale_max = 2
    /\ validated.answer = <<"0", "2", " ">>
    /\ validated.ok
    /\ validated.value = <<"2">>

\* the invariants of the data model on one question
WellFormed(question) ==
    /\ question.question_type = "choice" => question.choices # <<>>
    /\ question.question_type = "scale"
       => question.scale_min <= question.scale_max

\* C29: every question of a loaded catalog has a non-empty choice list if
\* it is a choice question and scale_min <= scale_max if it is a scale
\* question: a source with an entry that breaks either rule does not load.
C29_LoadedCatalogWellFormed ==
    \A i \in 1..Len(questions) : WellFormed(questions[i])

\* the yes/no buttons of the prompt whose id is on file for the user
YesNoPresses(user_id) ==
    { ev \in CallbackEvents(user_id) :
        ev.k = "yn" /\ ev.mid = Token(user_id) }

\* the durable position of the user in st is question j, just asked and
\* with its prompt on file, or the completed state when j is past the last
\* question
PositionFor(st, user_id, j) ==
    LET u == st.users[user_id]
    IN  /\ u.current_question_index = j
        /\ ~u.waiting_for_followup
        /\ user_id \notin st.waiting_for_followup
        /\ IF ~HasQuestion(j)
           THEN u.questionnaire_completed
           ELSE /\ ~u.questionnaire_completed
                /\ Last(st.sent[user_id]).qi = j
                /\ st.user_messages[user_id] = Len(st.sent[user_id])

\* C30: at the yes/no question i, a press of a button of the current prompt
\* records "Ano" for yes and "Ne" for no as one row of answers at i; the
\* user is then in the follow-up wait of i exactly when the value is "Ano"
\* and question i has a follow-up, and at question i + 1 otherwise.
C30_YesNoPressRecorded ==
    \A user_id \in Users : \A ev \in YesNoPresses(user_id) :
        AwaitingYesNo(user_id, ev.qi) =>
            LET r == Run(St, user_id, ev)
                i == ev.qi
                text == IF ev.ans = "yes" THEN S_Ano ELSE S_Ne
                u == r.st.users[user_id]
            IN  /\ r.st.answers[user_id] =
                       Append(answers[user_id], AnswerRow(i, text, "text", 0))
                /\ IF /\ text = S_Ano
                      /\ get_question(i).question_type = "yes_no"
                      /\ get_question(i).has_followup
                   THEN /\ u.waiting_for_followup
                        /\ u.followup_question_index = i
                   ELSE PositionFor(r.st, user_id, i + 1)

\* "Ne" has just been pressed on the current prompt of a yes/no question
\* that has a follow-up, and the user is at the next question
C30_Witness ==
    /\ lastEvent.type = "callback"
    /\ lastEvent.k = "yn"
    /\ lastEvent.res = "saved"
    /\ get_question(lastEvent.qi).has_followup
    /\ Len(answers[lastEvent.user]) > 0
    /\ Last(answers[lastEvent.user]).answer_text = S_Ne
    /\ PositionFor(St, lastEvent.user, lastEvent.qi + 1)
\* the begin triggers the user can send: the /start command, the text
\* "Ano", a press of a start button
BeginTriggers(user_id) ==
    {StartEvent, TextEvent(S_Ano, FALSE)}
        \cup { ev \in CallbackEvents(user_id) : ev.k = "start" }

\* question 0 has just been sent to the user and its prompt is on file
FirstQuestionPrompted(st, user_id) ==
    /\ st.sent[user_id] # <<>>
    /\ Last(st.sent[user_id]).k \in AnswerButtons
    /\ Last(st.sent[user_id]).qi = 0
    /\ st.user_messages[user_id] = Len(st.sent[user_id])
    /\ st.users[user_id].current_question_index = 0
    /\ ~st.users[user_id].questionnaire_completed

\* C31: for a user who has not started, the /start command, the text "Ano"
\* and the start button each send question 0 and leave its prompt on file.
C31_BeginPromptsFirstQuestion ==
    \A user_id \in Users :
        NotStarted(St, user_id)
        => \A ev \in BeginTriggers(user_id) :
               FirstQuestionPrompted(Run(St, user_id, ev).st, user_id)

\* C32: while the classifier call made for the message of one user is
\* pending, the coroutine of every other user's event can take its next
\* step.
C32_GateDoesNotBlockOthers ==
    \A g, k \in 1..Len(tasks) :
        (tasks[g].pc = "gate" /\ tasks[k].user # tasks[g].user)
        => ENABLED (ResumeGate(k) \/ CallGate(k))

\* C33: while no message id is on file for the user, a press of a yes/no or
\* skip button of an earlier prompt adds no row to answers and leaves
\* current_question_index as it is.
C33_NoTokenNoAnswer ==
    \A user_id \in Users : \A ev \in CallbackEvents(user_id) :
        (ev.k \in AnswerButtons /\ Token(user_id) = NoMsg)
        => LET r == Run(St, user_id, ev)
           IN  /\ r.st.answers[user_id] = answers[user_id]
               /\ r.st.users[user_id].current_question_index
                      = users[user_id].current_question_index

\* C34: once questionnaire_completed is set, no event but /restart changes
\* the user's row in users or adds a row to answers, and a completed user
\* is not in a follow-up wait and has completed_at set.
C34_CompletedAbsorbing ==
    \A user_id \in Users :
        users[user_id].questionnaire_completed
        => /\ ~users[user_id].waiting_for_followup
           /\ users[user_id].completed_at # NULL
           /\ \A ev \in CallbackEvents(user_id) \cup TextEvents
                           \cup {StartEvent, PhotoEvent} :
                  LET r == Run(St, user_id, ev)
                  IN  /\ r.st.users[user_id] = users[user_id]
                      /\ r.st.answers[user_id] = answers[user_id]

\* the question prompts _send_question has sent to the user, by message id
QuestionPrompts(st, user_id) ==
    { mid \in 1..Len(st.sent[user_id]) :
        st.sent[user_id][mid].k \in {"yn", "skip_photo", "skip_text"} }

\* the question index of the prompt sent last, NULL when none was sent
LastPromptedQuestion(st, user_id) ==
    LET prompts == QuestionPrompts(st, user_id)
    IN  IF prompts = {} THEN NULL
        ELSE st.sent[user_id][CHOOSE mid \in prompts :
                                  \A other \in prompts : other <= mid].qi

\* C35: while the user is in waiting_for_answer or waiting_for_photo, the
\* question prompt sent last is the one of current_question_index.
C35_PromptAgreesWithPosition ==
    \A user_id \in Users :
        user_id \in waiting_for_answer \cup waiting_for_photo
        => LastPromptedQuestion(St, user_id)
               = users[user_id].current_question_index

\* the store methods that commit an answer, a photo or a follow-up text
AnswerWrites == {"save_answer", "save_photo", "save_followup_answer"}

\* C36: a handler that has told the user the answer is saved has committed
\* it: no confirmation goes out in the handling of an event whose write of
\* the answer raises.
C36_ConfirmationAfterCommit ==
    lastEvent.confirmed => lastEvent.raised \notin AnswerWrites

\* handle_results: of the rows get_user_answers returns for the question
\* (ordered by answered_at) it shows the first; 0 when there is none
DisplayedAnswerOf(rows, question_index) ==
    IF \E k \in 1..Len(rows) : rows[k].question_index = question_index
    THEN CHOOSE k \in 1..Len(rows) :
             /\ rows[k].question_index = question_index
             /\ \A j \in 1..(k - 1) : rows[j].question_index # question_index
    ELSE 0

\* C37: a follow-up value recorded in the follow-up wait of question i is
\* on the row of answers that handle_results shows for i, and the wait is
\* not cleared unless some row of i holds the value.
C37_FollowupOnDisplayedAnswer ==
    \A user_id \in Users : \A i \in 0..(get_total_questions - 1) :
        AwaitingFollowup(user_id, i)
        => \A inp \in FollowupInputs(user_id, i) :
              LET r == Run(St, user_id, inp.ev).st
                  shown == DisplayedAnswerOf(r.answers[user_id], i)
              IN  ~r.users[user_id].waiting_for_followup
                  => /\ shown # 0
                     /\ r.answers[user_id][shown].followup_text = inp.value

\* the user is completed and answers holds exactly one row for each
\* question
CompletedOnce(user_id) ==
    /\ users[user_id].questionnaire_completed
    /\ \A i \in 0..(get_total_questions - 1) :
           Cardinality({ k \in 1..Len(answers[user_id]) :
                           answers[user_id][k].question_index = i }) = 1
    /\ Len(answers[user_id]) = get_total_questions

\* C38: a user who starts and answers each prompt with an input of its
\* kind is completed after finitely many events, with exactly one row of
\* answers for each question 0..N-1.
C38_CooperativeUserCompletes ==
    \A user_id \in Senders : <>CompletedOnce(user_id)

\* the user has been completed through a follow-up text and a photo
C38_Witness ==
    /\ CompletedOnce("u1")
    /\ photos["u1"] # <<>>
    /\ \E k \in 1..Len(answers["u1"]) :
           answers["u1"][k].followup_text \notin {<<>>, S_None}

\* C39: validating again the value validate_answer returned for an accepted
\* input of a text, choice, scale or yes/no question is accepted and
\* returns that same value.
C39_CanonicalIdempotent ==
    (validated # NoCall /\ validated.ok)
    => validate_answer(validated.question_index, validated.value)
           = [ok |-> TRUE, value |-> validated.value]

====
